---- MODULE Spec2Model ----
(***************************************************************************)
(* Model of the pull-request labeler of src/main.go: main() extracts the   *)
(* checkbox labels of the PR body and Action.Run dispatches the event to   *)
(* OnPullRequestOpenedOrEdited or OnPullRequestLabeledOrUnlabeled.  Every  *)
(* remote call of a handler is one step; a call may succeed or fail.       *)
(***************************************************************************)
EXTENDS Naturals, Sequences, FiniteSets, TLC

VARIABLES
    labelWatchSet,        \* ActionConfig.labelWatchSet
    enableLabelMissing,   \* ActionConfig.enableLabelMissing
    enableLabelMultiple,  \* ActionConfig.enableLabelMultiple
    labels,               \* ActionConfig.labels: extracted from the event's PR body
    repoLabels,           \* label store: labels the repository defines
    issueLabels,          \* label store: labels attached to the PR
    prBody,               \* label store: the PR body, a sequence of lines
    event,                \* Action.event
    pc,                   \* position of the running handler
    pr,                   \* the PR fetched by PullRequests.Get
    repoLabelsSet,        \* handler local
    currentLabelsSet,     \* handler local
    expectedLabelsMap,    \* handler local
    labelsToRemove,       \* handler local
    checkedCount,         \* handler local
    labelsToAdd,          \* handler local
    changeList,           \* handler local (labeled path)
    result,               \* how the process ended: "ok", "error" (log.Fatalln(err) in main), "fatal"
    calls,                \* the remote calls of the current run, in order
    runs,                 \* events handled so far, this one included
    prev                  \* whether every call of the previous run succeeded

vars == <<labelWatchSet, enableLabelMissing, enableLabelMultiple, labels,
          repoLabels, issueLabels, prBody, event, pc, pr, repoLabelsSet,
          currentLabelsSet, expectedLabelsMap, labelsToRemove, checkedCount,
          labelsToAdd, changeList, result, calls, runs, runs, prev>>

config == <<labelWatchSet, enableLabelMissing, enableLabelMultiple>>
locals == <<repoLabelsSet, currentLabelsSet, expectedLabelsMap, labelsToRemove,
            checkedCount, labelsToAdd, changeList>>

\* ------------------------------------------------------------------ bounds

MaxBodyLen == 2     \* lines of the PR body the first event carries
MaxRuns == 2        \* events of one kind delivered one after the other

\* ------------------------------------------------------------------ names

Doc == "doc"
DocRequired == "doc-required"
LabelMissing == "label-missing"                 \* default of LABEL_MISSING
MessageLabelMissing == "MessageLabelMissing"
MessageLabelMultiple == "MessageLabelMultiple"
Login == "author"                               \* pr.User.GetLogin()

Names == {Doc, DocRequired, LabelMissing}

\* The checkbox marks a body line may carry: "- [ ] `n`", "- [x] `n`", "- [X] `n`".
Marks == {" ", "x", "X"}

\* A line the pattern - \[(.*?)\] ?`(.+?)` matches, by its two capture groups.
Line(mark, name) == [mark |-> mark, name |-> name]

Lines == {Line(m, Doc) : m \in Marks} \cup {Line("x", DocRequired), Line("x", LabelMissing)}

Bodies == UNION {[1..n -> Lines] : n \in 0..MaxBodyLen}

\* LABEL_WATCH_LIST values, as comma-separated lists ("" is the unset variable).
WatchListSlugs == {<<>>, <<Doc, DocRequired>>, <<Doc, LabelMissing>>}

RepoLabelSets == {{Doc, DocRequired, LabelMissing}, {Doc}}

\* the action types of a pull_request event; "closed" stands for those Run ignores
Events == {"opened", "edited", "labeled", "unlabeled", "closed"}

Range(s) == {s[i] : i \in 1..Len(s)}

\* ------------------------------------------------------------------ pure functions

\* strings.Split(strings.TrimSpace(slug), ","): the empty string splits into [""].
SplitWatchList(slug) == IF slug = <<>> THEN {""} ELSE Range(slug)

TrimSpace(s) == IF s = " " THEN "" ELSE s

ToLower(s) == IF s = "X" THEN "x" ELSE s

\* labels[name] = checked
MapSet(m, k, v) == [x \in DOMAIN m \cup {k} |-> IF x = k THEN v ELSE m[x]]

EmptyMap == [x \in {} |-> FALSE]

RECURSIVE ExtractFrom(_, _, _)
ExtractFrom(targets, watch, acc) ==
    IF targets = <<>> THEN acc
    ELSE LET v == Head(targets)
             checked == ToLower(TrimSpace(v.mark)) = "x"
             name == TrimSpace(v.name)
         IN  ExtractFrom(Tail(targets), watch,
                         IF name \notin watch THEN acc ELSE MapSet(acc, name, checked))

\* extractLabels that keeps the first match of a name
RECURSIVE ExtractFirst(_, _, _)
ExtractFirst(targets, watch, acc) ==
    IF targets = <<>> THEN acc
    ELSE LET v == Head(targets)
             checked == ToLower(TrimSpace(v.mark)) = "x"
             name == TrimSpace(v.name)
         IN  ExtractFirst(Tail(targets), watch,
                          IF name \notin watch \/ name \in DOMAIN acc THEN acc
                          ELSE MapSet(acc, name, checked))

extractLabelsFirst(body, watch) == ExtractFirst(body, watch, EmptyMap)

extractLabels(body, watch) == ExtractFrom(body, watch, EmptyMap)

\* currentLabelsSet: issue labels in the watch set, plus the missing label
CurrentLabels(issue, watch) == {l \in issue : ~(l \notin watch /\ l # LabelMissing)}

\* expectedLabelsMap: the extracted labels the repository defines
ExpectedLabels(lbls, repo) == [l \in DOMAIN lbls \cap repo |-> lbls[l]]

\* RemoveSet with the unchecked entries forgotten: only unlisted labels go
RemoveSetUnlisted(current, expected, watch) ==
    IF DOMAIN expected = {}
    THEN {l \in watch : l \in current}
    ELSE {l \in current : l # LabelMissing /\ l \notin DOMAIN expected}

\* RemoveSet that leaves the labels alone when the body lists nothing
RemoveSetKeep(current, expected, watch) ==
    IF DOMAIN expected = {}
    THEN {}
    ELSE {l \in current : l # LabelMissing /\ ~(l \in DOMAIN expected /\ expected[l])}

\* labelsToRemove of the opened/edited handler, before the missing label is considered
RemoveSet(current, expected, watch) ==
    IF DOMAIN expected = {}
    THEN {l \in watch : l \in current}
    ELSE {l \in current : l # LabelMissing /\ ~(l \in DOMAIN expected /\ expected[l])}

CheckedCountOE(expected) == Cardinality({l \in DOMAIN expected : expected[l]})

\* AddSet without the look at the current labels
AddSetAgain(current, expected) == {l \in DOMAIN expected : expected[l]}

\* labelsToAdd (the order of the slice is the map's iteration order; the call takes a list)
AddSet(current, expected) == {l \in DOMAIN expected : expected[l] /\ l \notin current}

\* checkedCount of the labeled/unlabeled handler
CheckedCountLU(current, expected) ==
    Cardinality({l \in current : l \notin DOMAIN expected /\ l # LabelMissing})

\* RemoveMissing without the look at the count
RemoveMissingAlways(current, count) == LabelMissing \in current

\* RemoveMissing with the count test turned round
RemoveMissingOnNone(current, count) == LabelMissing \in current /\ count = 0

\* whether the missing label is removed
RemoveMissing(current, count) == LabelMissing \in current /\ count > 0

\* MultipleDetected off by one
MultipleDetectedLate(enableMultiple, count) == ~enableMultiple /\ count > 2

MultipleDetected(enableMultiple, count) == ~enableMultiple /\ count > 1

\* NeedsMissing without the look at the count
NeedsMissingAnyCount(enableMissing, count) == enableMissing

NeedsMissing(enableMissing, count) == enableMissing /\ count = 0

\* changeList of the labeled handler
ChangeListOf(current, expected) ==
    LET toCheck == {l \in current : ~(l \in DOMAIN expected /\ expected[l])}
        toUncheck == {l \in DOMAIN expected : l \notin current /\ expected[l]}
    IN  [l \in toCheck \cup toUncheck |-> l \in toCheck]

Contains(body, line) == \E i \in 1..Len(body) : body[i] = line

ReplaceFirst(body, src, dst) ==
    LET i == CHOOSE k \in 1..Len(body) :
                 body[k] = src /\ \A j \in 1..(k - 1) : body[j] # src
    IN  [body EXCEPT ![i] = dst]

\* ApplyChange without the append of a line the body lacks
ApplyChangeNoAppend(body, label, checked) ==
    LET src == IF checked THEN Line(" ", label) ELSE Line("x", label)
        dst == IF checked THEN Line("x", label) ELSE Line(" ", label)
    IN  IF Contains(body, src) THEN ReplaceFirst(body, src, dst)
        ELSE body

\* one iteration of the body loop
ApplyChange(body, label, checked) ==
    LET src == IF checked THEN Line(" ", label) ELSE Line("x", label)
        dst == IF checked THEN Line("x", label) ELSE Line(" ", label)
    IN  IF Contains(body, src) THEN ReplaceFirst(body, src, dst)
        ELSE Append(body, dst)

\* the bodies the loop over changeList can build: a Go map is ranged in any order
RECURSIVE NewBodies(_, _, _)
NewBodies(body, changes, todo) ==
    IF todo = {} THEN {body}
    ELSE UNION {NewBodies(ApplyChange(body, l, changes[l]), changes, todo \ {l}) : l \in todo}

\* ------------------------------------------------------------------ calls

Call(op, ls, text, ok) == [op |-> op, labels |-> ls, text |-> text, ok |-> ok]

\* fmt.Sprintf("@%s %s", pr.User.GetLogin(), message)
Comment(login, message) == <<"@", login, message>>

Removed == UNION {calls[i].labels : i \in {j \in 1..Len(calls) : calls[j].op = "Issues.RemoveLabelForIssue"}}

AllOk == \A i \in 1..Len(calls) : calls[i].ok

\* ------------------------------------------------------------------ initial state

NoPR == [body |-> <<>>, login |-> ""]

Init ==
    /\ \E slug \in WatchListSlugs : labelWatchSet = SplitWatchList(slug)
    /\ enableLabelMissing \in BOOLEAN
    /\ enableLabelMultiple \in BOOLEAN
    /\ repoLabels \in RepoLabelSets
    /\ issueLabels \in SUBSET repoLabels
    /\ prBody \in Bodies
    /\ labels = EmptyMap
    /\ event = "none"
    /\ pc = "idle"
    /\ pr = NoPR
    /\ repoLabelsSet = {}
    /\ currentLabelsSet = {}
    /\ expectedLabelsMap = EmptyMap
    /\ labelsToRemove = {}
    /\ checkedCount = 0
    /\ labelsToAdd = {}
    /\ changeList = EmptyMap
    /\ result = "none"
    /\ calls = <<>>
    /\ runs = 0
    /\ prev = "none"

\* ------------------------------------------------------------------ main

\* main() up to Action.Run: the labels are extracted from the event's PR body
\* and the handler starts with fresh locals.
Start(actionType) ==
    /\ event' = actionType
    /\ labels' = extractLabels(prBody, labelWatchSet)
    /\ runs' = runs + 1
    /\ pc' = "run"
    /\ pr' = NoPR
    /\ repoLabelsSet' = {}
    /\ currentLabelsSet' = {}
    /\ expectedLabelsMap' = EmptyMap
    /\ labelsToRemove' = {}
    /\ checkedCount' = 0
    /\ labelsToAdd' = {}
    /\ changeList' = EmptyMap
    /\ result' = "none"
    /\ calls' = <<>>
    /\ UNCHANGED <<config, repoLabels, issueLabels, prBody>>

\* main(): the first pull_request event of the PR arrives
Main ==
    /\ pc = "idle"
    /\ \E actionType \in Events : Start(actionType)
    /\ prev' = "none"

\* main(): the process has exited and an event of the same kind arrives
MainAgain ==
    /\ pc = "done"
    /\ runs < MaxRuns
    /\ Start(event)
    /\ prev' = IF AllOk THEN "clean" ELSE "failed"

Finish(res) == pc' = "done" /\ result' = res

\* ------------------------------------------------------------------ steps shared by both handlers

GetPR ==
    /\ pc = "run"
    /\ \E ok \in BOOLEAN :
         /\ calls' = Append(calls, Call("PullRequests.Get", {}, <<>>, ok))
         /\ IF ok THEN /\ pr' = [body |-> prBody, login |-> Login]
                       /\ pc' = "listRepo"
                       /\ UNCHANGED result
                  ELSE /\ Finish("error")
                       /\ UNCHANGED pr
    /\ UNCHANGED <<config, labels, repoLabels, issueLabels, prBody, event, locals, runs, prev>>

\* ListRepoLabels with the failure logged and the handler carrying on
ListRepoLabelsLogged ==
    /\ pc = "listRepo"
    /\ \E ok \in BOOLEAN :
         /\ calls' = Append(calls, Call("Issues.ListLabels", {}, <<>>, ok))
         /\ repoLabelsSet' = IF ok THEN repoLabels ELSE {}
         /\ pc' = "listIssue"
         /\ UNCHANGED result
    /\ UNCHANGED <<config, labels, repoLabels, issueLabels, prBody, event, pr,
                   currentLabelsSet, expectedLabelsMap, labelsToRemove, checkedCount,
                   labelsToAdd, changeList, runs, prev>>

ListRepoLabels ==
    /\ pc = "listRepo"
    /\ \E ok \in BOOLEAN :
         /\ calls' = Append(calls, Call("Issues.ListLabels", {}, <<>>, ok))
         /\ IF ok THEN /\ repoLabelsSet' = repoLabels
                       /\ pc' = "listIssue"
                       /\ UNCHANGED result
                  ELSE /\ Finish("fatal")
                       /\ UNCHANGED repoLabelsSet
    /\ UNCHANGED <<config, labels, repoLabels, issueLabels, prBody, event, pr,
                   currentLabelsSet, expectedLabelsMap, labelsToRemove, checkedCount,
                   labelsToAdd, changeList, runs, prev>>

\* ListIssueLabels that plans the removals of the opened/edited handler on both paths
ListIssueLabelsBoth(oe) ==
    /\ pc = "listIssue"
    /\ \E ok \in BOOLEAN :
         /\ calls' = Append(calls, Call("Issues.ListLabelsByIssue", {}, <<>>, ok))
         /\ IF ok
            THEN LET current == CurrentLabels(issueLabels, labelWatchSet)
                     expected == ExpectedLabels(labels, repoLabelsSet)
                 IN  /\ currentLabelsSet' = current
                     /\ expectedLabelsMap' = expected
                     /\ labelsToRemove' = RemoveSet(current, expected, labelWatchSet)
                     /\ checkedCount' = IF oe THEN CheckedCountOE(expected)
                                        ELSE CheckedCountLU(current, expected)
                     /\ pc' = "multiple"
                     /\ UNCHANGED result
            ELSE /\ Finish("fatal")
                 /\ UNCHANGED <<currentLabelsSet, expectedLabelsMap, labelsToRemove, checkedCount>>
    /\ UNCHANGED <<config, labels, repoLabels, issueLabels, prBody, event, pr,
                   repoLabelsSet, labelsToAdd, changeList, runs, prev>>

\* getIssueLabels and the local computations that follow it up to the multiple check
ListIssueLabels(oe) ==
    /\ pc = "listIssue"
    /\ \E ok \in BOOLEAN :
         /\ calls' = Append(calls, Call("Issues.ListLabelsByIssue", {}, <<>>, ok))
         /\ IF ok
            THEN LET current == CurrentLabels(issueLabels, labelWatchSet)
                     expected == ExpectedLabels(labels, repoLabelsSet)
                 IN  /\ currentLabelsSet' = current
                     /\ expectedLabelsMap' = expected
                     /\ labelsToRemove' = IF oe THEN RemoveSet(current, expected, labelWatchSet)
                                          ELSE {}
                     /\ checkedCount' = IF oe THEN CheckedCountOE(expected)
                                        ELSE CheckedCountLU(current, expected)
                     /\ pc' = "multiple"
                     /\ UNCHANGED result
            ELSE /\ Finish("fatal")
                 /\ UNCHANGED <<currentLabelsSet, expectedLabelsMap, labelsToRemove, checkedCount>>
    /\ UNCHANGED <<config, labels, repoLabels, issueLabels, prBody, event, pr,
                   repoLabelsSet, labelsToAdd, changeList, runs, prev>>

\* "Multiple labels detected": comment to the author, then the error is returned
MultipleLabels ==
    /\ pc = "multiple"
    /\ MultipleDetected(enableLabelMultiple, checkedCount)
    /\ \E ok \in BOOLEAN :
         calls' = Append(calls, Call("Issues.CreateComment", {}, Comment(pr.login, MessageLabelMultiple), ok))
    /\ Finish("error")
    /\ UNCHANGED <<config, labels, repoLabels, issueLabels, prBody, event, pr, locals, runs, prev>>

\* the missing label joins labelsToRemove
PlanRemoveMissing ==
    /\ pc = "multiple"
    /\ ~MultipleDetected(enableLabelMultiple, checkedCount)
    /\ labelsToRemove' = IF RemoveMissing(currentLabelsSet, checkedCount)
                         THEN labelsToRemove \cup {LabelMissing}
                         ELSE labelsToRemove
    /\ pc' = "remove"
    /\ UNCHANGED <<config, labels, repoLabels, issueLabels, prBody, event, pr,
                   repoLabelsSet, currentLabelsSet, expectedLabelsMap, checkedCount,
                   labelsToAdd, changeList, result, calls, runs, runs, prev>>

\* one iteration of the loop over labelsToRemove; a failed call returns the error
RemoveLabel ==
    /\ pc = "remove"
    /\ \E label \in labelsToRemove \ Removed :
         \E ok \in BOOLEAN :
           /\ calls' = Append(calls, Call("Issues.RemoveLabelForIssue", {label}, <<>>, ok))
           /\ IF ok THEN /\ issueLabels' = issueLabels \ {label}
                         /\ UNCHANGED <<pc, result>>
                    ELSE /\ Finish("error")
                         /\ UNCHANGED issueLabels
    /\ UNCHANGED <<config, labels, repoLabels, prBody, event, pr, locals, runs, prev>>

\* ------------------------------------------------------------------ opened / edited

\* AddLabels moved in front of the loop over labelsToRemove
AddLabelsFirst ==
    /\ pc = "remove"
    /\ labelsToAdd = {}
    /\ LET toAdd == AddSet(currentLabelsSet, expectedLabelsMap)
       IN  /\ toAdd # {}
           /\ labelsToAdd' = toAdd
           /\ \E ok \in BOOLEAN :
                /\ calls' = Append(calls, Call("Issues.AddLabelsToIssue", toAdd, <<>>, ok))
                /\ issueLabels' = IF ok THEN issueLabels \cup toAdd ELSE issueLabels
                /\ repoLabels' = IF ok THEN repoLabels \cup toAdd ELSE repoLabels
    /\ UNCHANGED <<config, labels, prBody, event, pc, pr, repoLabelsSet, currentLabelsSet,
                   expectedLabelsMap, labelsToRemove, checkedCount, changeList, result,
                   runs, prev>>

\* labelsToAdd is computed once the removals are through; a failed call is logged
AddLabels ==
    /\ pc = "remove"
    /\ labelsToRemove \ Removed = {}
    /\ LET toAdd == AddSet(currentLabelsSet, expectedLabelsMap)
       IN  /\ labelsToAdd' = toAdd
           /\ IF toAdd = {}
              THEN UNCHANGED <<calls, issueLabels, repoLabels>>
              ELSE \E ok \in BOOLEAN :
                     /\ calls' = Append(calls, Call("Issues.AddLabelsToIssue", toAdd, <<>>, ok))
                     /\ issueLabels' = IF ok THEN issueLabels \cup toAdd ELSE issueLabels
                     /\ repoLabels' = IF ok THEN repoLabels \cup toAdd ELSE repoLabels
    /\ pc' = "missing"
    /\ UNCHANGED <<config, labels, prBody, event, pr, repoLabelsSet, currentLabelsSet,
                   expectedLabelsMap, labelsToRemove, checkedCount, changeList, result,
                   runs, prev>>

\* "@Add missing label": the label store creates a label the repository lacks
AddMissingLabel(at) ==
    /\ pc = at
    /\ labelsToRemove \ Removed = {}
    /\ NeedsMissing(enableLabelMissing, checkedCount)
    /\ \E ok \in BOOLEAN :
         /\ calls' = Append(calls, Call("Issues.AddLabelsToIssue", {LabelMissing}, <<>>, ok))
         /\ IF ok THEN /\ issueLabels' = issueLabels \cup {LabelMissing}
                       /\ repoLabels' = repoLabels \cup {LabelMissing}
                       /\ pc' = "comment"
                       /\ UNCHANGED result
                  ELSE /\ Finish("error")
                       /\ UNCHANGED <<issueLabels, repoLabels>>
    /\ UNCHANGED <<config, labels, prBody, event, pr, locals, runs, prev>>

\* the missing-label comment; its failure is logged; the error is returned either way
CommentMissing ==
    /\ pc = "comment"
    /\ \E ok \in BOOLEAN :
         calls' = Append(calls, Call("Issues.CreateComment", {}, Comment(pr.login, MessageLabelMissing), ok))
    /\ Finish("error")
    /\ UNCHANGED <<config, labels, repoLabels, issueLabels, prBody, event, pr, locals, runs, prev>>

\* return nil
ReturnNil ==
    /\ pc = "missing"
    /\ ~NeedsMissing(enableLabelMissing, checkedCount)
    /\ Finish("ok")
    /\ UNCHANGED <<config, labels, repoLabels, issueLabels, prBody, event, pr, locals, calls,
                   runs, prev>>

OnPullRequestOpenedOrEdited ==
    /\ event \in {"opened", "edited"}
    /\ \/ GetPR
       \/ ListRepoLabels
       \/ ListIssueLabels(TRUE)
       \/ MultipleLabels
       \/ PlanRemoveMissing
       \/ RemoveLabel
       \/ AddLabels
       \/ AddMissingLabel("missing")
       \/ CommentMissing
       \/ ReturnNil

\* ------------------------------------------------------------------ labeled / unlabeled

\* if a.event == "unlabeled" { return nil }
ReturnUnlabeled ==
    /\ pc = "remove"
    /\ labelsToRemove \ Removed = {}
    /\ ~NeedsMissing(enableLabelMissing, checkedCount)
    /\ event = "unlabeled"
    /\ Finish("ok")
    /\ UNCHANGED <<config, labels, repoLabels, issueLabels, prBody, event, pr, locals, calls,
                   runs, prev>>

\* UpdateBody without the look at the event
UpdateBodyAlways ==
    /\ pc = "remove"
    /\ labelsToRemove \ Removed = {}
    /\ ~NeedsMissing(enableLabelMissing, checkedCount)
    /\ LET changes == ChangeListOf(currentLabelsSet, expectedLabelsMap)
       IN  /\ changeList' = changes
           /\ IF DOMAIN changes = {}
              THEN /\ Finish("ok")
                   /\ UNCHANGED <<calls, prBody>>
              ELSE \E body \in NewBodies(pr.body, changes, DOMAIN changes) :
                     \E ok \in BOOLEAN :
                       /\ calls' = Append(calls, Call("PullRequests.Edit", {}, <<>>, ok))
                       /\ prBody' = IF ok THEN body ELSE prBody
                       /\ Finish(IF ok THEN "ok" ELSE "error")
    /\ UNCHANGED <<config, labels, repoLabels, issueLabels, event, pr, repoLabelsSet,
                   currentLabelsSet, expectedLabelsMap, labelsToRemove, checkedCount,
                   labelsToAdd, runs, prev>>

\* "Update PR Body": the change list, the rewritten body and the edit call
UpdateBody ==
    /\ pc = "remove"
    /\ labelsToRemove \ Removed = {}
    /\ ~NeedsMissing(enableLabelMissing, checkedCount)
    /\ event # "unlabeled"
    /\ LET changes == ChangeListOf(currentLabelsSet, expectedLabelsMap)
       IN  /\ changeList' = changes
           /\ IF DOMAIN changes = {}
              THEN /\ Finish("ok")
                   /\ UNCHANGED <<calls, prBody>>
              ELSE \E body \in NewBodies(pr.body, changes, DOMAIN changes) :
                     \E ok \in BOOLEAN :
                       /\ calls' = Append(calls, Call("PullRequests.Edit", {}, <<>>, ok))
                       /\ prBody' = IF ok THEN body ELSE prBody
                       /\ Finish(IF ok THEN "ok" ELSE "error")
    /\ UNCHANGED <<config, labels, repoLabels, issueLabels, event, pr, repoLabelsSet,
                   currentLabelsSet, expectedLabelsMap, labelsToRemove, checkedCount,
                   labelsToAdd, runs, prev>>

OnPullRequestLabeledOrUnlabeled ==
    /\ event \in {"labeled", "unlabeled"}
    /\ \/ GetPR
       \/ ListRepoLabels
       \/ ListIssueLabels(FALSE)
       \/ MultipleLabels
       \/ PlanRemoveMissing
       \/ RemoveLabel
       \/ AddMissingLabel("remove")
       \/ CommentMissing
       \/ ReturnUnlabeled
       \/ UpdateBody

\* ------------------------------------------------------------------ specification

\* Action.Run: any other action type returns nil
RunOther ==
    /\ pc = "run"
    /\ event \notin {"opened", "edited", "labeled", "unlabeled"}
    /\ Finish("ok")
    /\ UNCHANGED <<config, labels, repoLabels, issueLabels, prBody, event, pr, locals, calls,
                   runs, prev>>

Next ==
    \/ Main
    \/ MainAgain
    \/ OnPullRequestOpenedOrEdited
    \/ OnPullRequestLabeledOrUnlabeled
    \/ RunOther

Spec == Init /\ [][Next]_vars

\* ------------------------------------------------------------------ vocabulary of the properties

OpenedOrEdited == event \in {"opened", "edited"}

LabeledOrUnlabeled == event \in {"labeled", "unlabeled"}

Done == pc = "done"

CallsOf(op) == {i \in 1..Len(calls) : calls[i].op = op}

\* the label lists were read
ReadsOk == \E i \in CallsOf("Issues.ListLabelsByIssue") : calls[i].ok

RemoveCalled == UNION {calls[i].labels : i \in CallsOf("Issues.RemoveLabelForIssue")}

AddCalled == UNION {calls[i].labels : i \in CallsOf("Issues.AddLabelsToIssue")}

CommentCalled(message) ==
    \E i \in CallsOf("Issues.CreateComment") : calls[i].text = <<"@", Login, message>>

CommentPosted(message) ==
    \E i \in CallsOf("Issues.CreateComment") :
        calls[i].text = <<"@", Login, message>> /\ calls[i].ok

\* the names a mapping holds as checked
Checked(m) == {l \in DOMAIN m : m[l]}

\* the names whose last checkbox line in the body is checked
BodyChecked(body) ==
    {n \in Names : \E i \in 1..Len(body) :
        /\ body[i].name = n
        /\ body[i].mark \in {"x", "X"}
        /\ \A j \in (i + 1)..Len(body) : body[j].name # n}

\* the names that have a checkbox line in the body
BodyListed(body) == {body[i].name : i \in 1..Len(body)}

\* checked in the body, watched and defined in the repository
DesiredChecked == BodyChecked(prBody) \cap labelWatchSet \cap repoLabelsSet

\* listed in the body, watched and defined in the repository
DesiredListed == BodyListed(prBody) \cap labelWatchSet \cap repoLabelsSet

MultipleViolation == ~enableLabelMultiple /\ Cardinality(DesiredChecked) > 1

\* the missing label is not itself a watched label
SentinelApart == LabelMissing \notin labelWatchSet

\* ------------------------------------------------------------------ C1

\* C1 as stated: after an opened/edited run whose calls all succeed and that
\* raises no multiple-selection violation, the watched labels on the PR are
\* exactly the names checked in the body and defined in the repository.
C1_Stated ==
    (Done /\ OpenedOrEdited /\ AllOk /\ ~MultipleViolation)
        => issueLabels \cap labelWatchSet = DesiredChecked

\* C1 amended: after an opened/edited run whose calls all succeed and that
\* raises no multiple-selection violation, under a watch list that does not hold
\* the missing label, the watched labels on the PR are exactly the names checked
\* in the body and defined in the repository.
C1_Reconciled ==
    (Done /\ OpenedOrEdited /\ AllOk /\ ~MultipleViolation /\ SentinelApart)
        => issueLabels \cap labelWatchSet = DesiredChecked

\* a run that removed one label and added another
C1_Witness ==
    /\ Done /\ OpenedOrEdited /\ AllOk /\ ~MultipleViolation /\ SentinelApart
    /\ RemoveCalled # {} /\ labelsToAdd # {}
    /\ issueLabels \cap labelWatchSet = DesiredChecked

\* ------------------------------------------------------------------ C2

\* C2: on the opened/edited path, once the labels are read, multi-select
\* disabled and more than one repository-defined label checked mean: no
\* add-label and no remove-label call, and at the end of the run a comment to
\* the author has been sent and the run has failed.
C2_ShortCircuit ==
    (OpenedOrEdited /\ ReadsOk /\ MultipleViolation)
        => /\ RemoveCalled = {} /\ AddCalled = {} /\ labelsToAdd = {}
           /\ pc \in {"multiple", "done"}
           /\ Done => (CommentCalled(MessageLabelMultiple) /\ result = "error")

\* two labels checked, labels on the PR that differ from them, the comment posted
C2_Witness ==
    /\ Done /\ OpenedOrEdited /\ ReadsOk /\ MultipleViolation
    /\ currentLabelsSet # DesiredChecked
    /\ CommentPosted(MessageLabelMultiple) /\ result = "error"

\* ------------------------------------------------------------------ C3

\* the second of two opened/edited runs, the first with every call succeeding
SecondRun == runs >= 2 /\ OpenedOrEdited /\ prev = "clean"

\* what has been fixed of the plan: labelsToRemove is final once the multiple
\* check is passed, labelsToAdd once the removals are through
PlanEmpty ==
    /\ RemoveCalled = {}
    /\ labelsToAdd = {}
    /\ (pc \in {"remove", "missing", "comment"}) => labelsToRemove = {}
    /\ (Done /\ ReadsOk /\ ~MultipleViolation) => labelsToRemove = {}

MissingReported ==
    /\ LabelMissing \in issueLabels
    /\ \E i \in CallsOf("Issues.AddLabelsToIssue") : calls[i].labels = {LabelMissing}
    /\ CommentPosted(MessageLabelMissing)
    /\ result = "error"

C4_WhenMissing ==
    (Done /\ OpenedOrEdited /\ AllOk /\ enableLabelMissing /\ DesiredChecked = {})
        => MissingReported

C5_Stated ==
    ReadsOk => /\ AddCalled \subseteq repoLabelsSet
               /\ DOMAIN expectedLabelsMap \subseteq repoLabelsSet

\* ------------------------------------------------------------------ C6

\* the body lists no watched, repository-defined name, and the plan is made
NothingDesired == OpenedOrEdited /\ ReadsOk /\ DesiredListed = {}

RemovesWatched ==
    /\ labelsToRemove = currentLabelsSet \cap labelWatchSet
    /\ pc = "multiple" => labelsToRemove = issueLabels \cap labelWatchSet

\* C6 as stated: with nothing desired, toRemove is the current labels of the
\* watch list, and the missing label is not among them.
C6_Stated == NothingDesired => (RemovesWatched /\ LabelMissing \notin labelsToRemove)

\* C6 amended: with nothing desired, toRemove is the current labels of the
\* watch list; the missing label is among them only as a member of the watch list.
C6_ClearsWatched ==
    NothingDesired => (RemovesWatched /\ (SentinelApart => LabelMissing \notin labelsToRemove))

\* watched labels and the sentinel on the PR, the watched ones to be removed
C6_Witness ==
    /\ NothingDesired /\ SentinelApart /\ pc = "remove"
    /\ LabelMissing \in currentLabelsSet
    /\ labelsToRemove # {} /\ RemovesWatched

\* ------------------------------------------------------------------ C7

Disjoint ==
    /\ RemoveCalled \cap AddCalled = {}
    /\ labelsToRemove \cap (labelsToAdd \cup AddCalled) = {}

\* C7 as stated: no name is passed both to a remove-label and to an add-label
\* call of one opened/edited run, the add of the missing label included.
C7_Stated == OpenedOrEdited => Disjoint

\* C7 amended: under a watch list that does not hold the missing label, no name
\* is passed both to a remove-label and to an add-label call of one
\* opened/edited run, the add of the missing label included.
C7_Disjoint == (OpenedOrEdited /\ SentinelApart) => Disjoint

\* a run that removed a label and added the missing label
C7_Witness ==
    /\ OpenedOrEdited /\ SentinelApart /\ Done /\ AllOk
    /\ RemoveCalled # {} /\ LabelMissing \in AddCalled /\ Disjoint

\* ------------------------------------------------------------------ C8

\* a labeled run that pushed a rewritten body
Rewritten ==
    /\ event = "labeled" /\ Done
    /\ \E i \in CallsOf("PullRequests.Edit") : calls[i].ok

RoundTrip == Checked(extractLabels(prBody, labelWatchSet)) = currentLabelsSet \cap labelWatchSet

RoundTripRepo ==
    Checked(extractLabels(prBody, labelWatchSet)) \cap repoLabelsSet
        = currentLabelsSet \cap labelWatchSet

\* C8 as stated: the body after the rewrite extracts to the current labels.
C8_Stated == Rewritten => RoundTrip

\* no name has two checkbox lines in the body the run fetched
OneLineEach == \A i, j \in 1..Len(pr.body) : pr.body[i].name = pr.body[j].name => i = j

\* C8 amended: when no name has two checkbox lines, the checked names of the
\* new body that the repository defines are the current labels of the watch list.
C8_RoundTrip == (Rewritten /\ OneLineEach) => RoundTripRepo

\* a rewrite that checked one name and unchecked another
C8_Witness ==
    /\ Rewritten /\ OneLineEach /\ RoundTripRepo
    /\ \E a, b \in DOMAIN changeList : changeList[a] /\ ~changeList[b]

\* ------------------------------------------------------------------ C9

\* the PR carries the sentinel and one watched, repository-defined label that
\* the body does not show as checked
SentinelAndOne ==
    \E l \in (labelWatchSet \cap repoLabelsSet) \ {LabelMissing} :
        /\ currentLabelsSet = {LabelMissing, l}
        /\ l \notin BodyChecked(pr.body)

\* C9 as stated: such a labeled run, multi-select disabled and every call
\* succeeding, takes the sentinel off the PR and leaves the label's checked
\* line in the body.
C9_Stated ==
    (event = "labeled" /\ Done /\ AllOk /\ ~enableLabelMultiple /\ SentinelAndOne)
        => /\ LabelMissing \notin issueLabels
           /\ \A l \in currentLabelsSet \ {LabelMissing} : Contains(prBody, Line("x", l))

\* ------------------------------------------------------------------ C10

\* C10 as stated: an opened/edited run that got past the multiple check has
\* attempted every removal of toRemove and the addition of toAdd by its end,
\* whichever single call failed.
C10_Stated ==
    (OpenedOrEdited /\ Done /\ ReadsOk /\ ~MultipleViolation)
        => /\ labelsToRemove \subseteq RemoveCalled
           /\ (DesiredChecked \ currentLabelsSet) \subseteq AddCalled

\* ------------------------------------------------------------------ C11

\* the calls that change the PR
Mutating == {"Issues.RemoveLabelForIssue", "Issues.AddLabelsToIssue",
             "Issues.CreateComment", "PullRequests.Edit"}

\* the reads a handler starts with, in their order
Reads == <<"PullRequests.Get", "Issues.ListLabels", "Issues.ListLabelsByIssue">>

MutatingCalled == \E i \in 1..Len(calls) : calls[i].op \in Mutating

\* C11: on both paths a failed fetch of the PR or a failed listing of the
\* repository or issue labels is the last call of the run, which then has
\* ended in an error; every mutating call comes after the three reads, each
\* of them successful.
C11_ReadsFirst ==
    /\ \A i \in 1..Len(calls) :
          calls[i].op \in Mutating
              => /\ i > 3
                 /\ \A k \in 1..3 : calls[k].op = Reads[k] /\ calls[k].ok
    /\ \A i \in 1..Len(calls) :
          (calls[i].op \in Range(Reads) /\ ~calls[i].ok)
              => /\ i = Len(calls)
                 /\ Done /\ result \in {"error", "fatal"}

\* the listing of the issue labels failed on a PR whose labels differ from the
\* checked boxes of its body
C11_Witness ==
    /\ OpenedOrEdited /\ Done /\ result = "fatal"
    /\ Len(calls) = 3 /\ ~calls[3].ok /\ ~MutatingCalled
    /\ issueLabels \cap labelWatchSet # BodyChecked(prBody) \cap labelWatchSet \cap repoLabels

\* a run on the labeled path that read everything and then edited the body
C11_WitnessMutation ==
    /\ event = "labeled" /\ Done /\ MutatingCalled
    /\ \A k \in 1..3 : calls[k].ok

\* ------------------------------------------------------------------ C12

\* the text the labels of the run were extracted from
ExtractedFrom == IF pc = "run" THEN prBody ELSE pr.body

\* C12: the extracted mapping holds exactly the watched names that have a
\* checkbox match in the text, each with the checked value of its last match;
\* a text without a match gives the empty mapping.
C12_LastMatch ==
    (pc = "run" \/ pr # NoPR)
        => /\ DOMAIN labels = BodyListed(ExtractedFrom) \cap labelWatchSet
           /\ \A n \in DOMAIN labels : labels[n] = (n \in BodyChecked(ExtractedFrom))
           /\ ExtractedFrom = <<>> => labels = EmptyMap

\* a watched name checked in its first match and unchecked in its last
C12_Witness ==
    /\ pc = "run" /\ Len(prBody) = 2
    /\ prBody[1].name = prBody[2].name
    /\ prBody[1].mark = "X" /\ prBody[2].mark = " "
    /\ prBody[1].name \in DOMAIN labels /\ ~labels[prBody[1].name]

\* a match of a name outside the watch list, dropped from the mapping
C12_WitnessOutside ==
    /\ pc = "run" /\ Len(prBody) = 2
    /\ prBody[1].name \in labelWatchSet /\ prBody[2].name \notin labelWatchSet
    /\ DOMAIN labels = {prBody[1].name}

\* ------------------------------------------------------------------ C13

\* checked in the body the run fetched, watched and defined in the repository
DesiredCheckedFetched == BodyChecked(pr.body) \cap labelWatchSet \cap repoLabelsSet

\* C13 as stated: at the end of a labeled/unlabeled run whose calls all
\* succeeded, the multiple-selection comment was sent exactly when multi-select
\* is disabled and more than one repository-defined desired label is checked
\* in the body, and otherwise the missing label was added exactly when the
\* feature is enabled and no such label is checked.
C13_Stated ==
    (LabeledOrUnlabeled /\ Done /\ AllOk /\ ReadsOk)
        => LET multiple == ~enableLabelMultiple /\ Cardinality(DesiredCheckedFetched) > 1
           IN  /\ CommentCalled(MessageLabelMultiple) <=> multiple
               /\ ~multiple => (LabelMissing \in AddCalled
                                   <=> (enableLabelMissing /\ DesiredCheckedFetched = {}))

\* ------------------------------------------------------------------ C14

LabelCalls == CallsOf("Issues.RemoveLabelForIssue") \cup CallsOf("Issues.AddLabelsToIssue")

\* C14: in an opened/edited run every remove-label call precedes every
\* add-label call, an add of the missing label follows every other add, and no
\* label call is issued before the multiple-selection check is passed nor
\* after it raised the violation.
C14_RemoveThenAdd ==
    OpenedOrEdited
        => /\ \A i \in CallsOf("Issues.RemoveLabelForIssue") :
                 \A j \in CallsOf("Issues.AddLabelsToIssue") : i < j
           /\ \A i, j \in CallsOf("Issues.AddLabelsToIssue") :
                 (i < j) => (calls[j].labels = {LabelMissing} /\ calls[i].labels = labelsToAdd)
           /\ (pc \in {"run", "listRepo", "listIssue", "multiple"}) => LabelCalls = {}
           /\ CommentCalled(MessageLabelMultiple) => LabelCalls = {}

\* a run that removed a label and then added another
C14_Witness ==
    /\ OpenedOrEdited /\ Done /\ AllOk
    /\ labelsToAdd # {}
    /\ \E i \in CallsOf("Issues.RemoveLabelForIssue") :
          \E j \in CallsOf("Issues.AddLabelsToIssue") : i < j /\ calls[j].labels = labelsToAdd

\* ------------------------------------------------------------------ C15

EditCalled == CallsOf("PullRequests.Edit") # {}

\* C15: a run triggered by "unlabeled" issues no edit call, and the PR body
\* stays the body the run fetched.
C15_NoEdit ==
    event = "unlabeled"
        => /\ ~EditCalled
           /\ changeList = EmptyMap
           /\ pr # NoPR => prBody = pr.body

\* an unlabeled run through to its end on a PR whose labels differ from the
\* checked boxes of the body
C15_Witness ==
    /\ event = "unlabeled" /\ Done /\ result = "ok" /\ ReadsOk
    /\ DOMAIN ChangeListOf(currentLabelsSet, expectedLabelsMap) # {}
    /\ ~EditCalled /\ prBody = pr.body

\* ------------------------------------------------------------------ C16

\* a labeled run that got to "Update PR Body" and has ended
ReachedRewrite ==
    /\ event = "labeled" /\ Done /\ ReadsOk
    /\ ~CommentCalled(MessageLabelMultiple)
    /\ LabelMissing \notin AddCalled
    /\ \A i \in CallsOf("Issues.RemoveLabelForIssue") : calls[i].ok

\* a current label other than the missing label is not checked in desired, or
\* a checked desired label is not a current label
PendingChange ==
    \/ \E l \in currentLabelsSet \ {LabelMissing} : l \notin Checked(expectedLabelsMap)
    \/ \E l \in Checked(expectedLabelsMap) : l \notin currentLabelsSet

LinesOf(body, name) == {i \in 1..Len(body) : body[i].name = name}

\* C16 as stated: a labeled run that reaches the body rewrite issues the edit
\* call exactly when a change other than for the missing label is pending,
\* and the body it leaves has no more lines of the missing label than the body
\* it fetched.
C16_Stated ==
    ReachedRewrite
        => /\ EditCalled <=> PendingChange
           /\ Cardinality(LinesOf(prBody, LabelMissing))
                 = Cardinality(LinesOf(pr.body, LabelMissing))

\* ------------------------------------------------------------------ C17

\* the plan of an opened/edited run is made: the multiple check is passed
Planned ==
    \/ pc \in {"remove", "missing", "comment"}
    \/ Done /\ ReadsOk /\ ~MultipleViolation

\* the missing label on the PR is planned for removal once a defined label is checked
SentinelSuperseded ==
    (OpenedOrEdited /\ Planned /\ LabelMissing \in currentLabelsSet /\ DesiredChecked # {})
        => LabelMissing \in labelsToRemove

SentinelWithChecked == LabelMissing \in issueLabels /\ DesiredChecked # {}

C18_Stated ==
    (Done /\ result = "ok")
        => /\ AllOk
           /\ OpenedOrEdited => labelsToAdd \subseteq issueLabels

\* ------------------------------------------------------------------ C19

\* LABEL_WATCH_LIST is empty
WatchListEmpty == labelWatchSet = SplitWatchList(<<>>)

\* C19 as stated: under an empty watch list no run issues an add-label call, a
\* remove-label call or an edit of the body, the missing label included.
C19_Stated ==
    WatchListEmpty => (AddCalled = {} /\ RemoveCalled = {} /\ ~EditCalled)

\* ------------------------------------------------------------------ C20

\* C20: on the labeled/unlabeled path the add-label and remove-label calls name
\* the missing label only, and the other watched labels on the PR stay the
\* ones the run read.
C20_OnlySentinel ==
    LabeledOrUnlabeled
        => /\ AddCalled \subseteq {LabelMissing}
           /\ RemoveCalled \subseteq {LabelMissing}
           /\ labelsToRemove \subseteq {LabelMissing}
           /\ ReadsOk => (issueLabels \cap labelWatchSet) \ {LabelMissing}
                            = (currentLabelsSet \cap labelWatchSet) \ {LabelMissing}

\* a run that took the missing label off a PR whose watched labels differ from
\* the checked boxes of the body
C20_Witness ==
    /\ LabeledOrUnlabeled /\ Done /\ AllOk /\ ReadsOk
    /\ LabelMissing \in RemoveCalled
    /\ (currentLabelsSet \cap labelWatchSet) \ {LabelMissing} # Checked(expectedLabelsMap) \ {LabelMissing}
    /\ (issueLabels \cap labelWatchSet) \ {LabelMissing}
          = (currentLabelsSet \cap labelWatchSet) \ {LabelMissing}

====
